---- MODULE Spec2Model ----
(***************************************************************************)
(* A model of uv-distribution's DistributionDatabase                        *)
(* (crates/uv-distribution/src/distribution_database.rs): the resolution    *)
(* of a distribution to a local wheel or to its metadata, by concurrent     *)
(* callers sharing a cache, a lock table and a build backend.               *)
(***************************************************************************)
EXTENDS Integers, Sequences, FiniteSets, TLC

(***************************************************************************)
(* Bounds of the model.                                                     *)
(***************************************************************************)
\* Number of concurrent callers (futures awaiting a resolution).
NumCallers == 2
\* Number of resolutions of a local wheel each caller performs, one after the
\* other.
MaxCalls == 2
\* Largest modification time the filesystem reports.
MaxTime == 2

Callers == 1 .. NumCallers
NoCaller == 0

\* DistributionDatabase instances; each owns the Locks made by new().
Databases == {"db1"}

(***************************************************************************)
(* Inputs: policies and distributions.                                      *)
(***************************************************************************)
None == "-"
NoName == "-"

\* NoBuild / NoBinary: None, All, Packages(set of names).
Policies ==
    { [kind |-> "None", packages |-> {}],
      [kind |-> "All", packages |-> {}],
      [kind |-> "Packages", packages |-> {"p"}] }

\* A distribution: its variant (Source, Built), the kind of its location, its
\* name, the resolved location `id` its cache key and lock identity derive
\* from, whether its URL joins/parses (url_ok), whether its path is absolute,
\* and whether a GET request can be built for its URL (request_ok).
Dist(variant, kind, name, id, url_ok, absolute, request_ok) ==
    [variant |-> variant, kind |-> kind, name |-> name, id |-> id,
     url_ok |-> url_ok, absolute |-> absolute, request_ok |-> request_ok]

NoDist == Dist(None, None, NoName, None, TRUE, TRUE, TRUE)

\* Source distributions, as Dist::Source / BuildableSource::Dist.
SourceDists ==
    { Dist("Source", "Registry", "p", "A", TRUE, TRUE, TRUE),
      Dist("Source", "Registry", "q", "B", TRUE, TRUE, TRUE) }

\* BuildableSource::Url / ::Path, which may carry no name.
UnnamedSources ==
    { Dist("Source", "Url", NoName, "A", TRUE, TRUE, TRUE) }

SourceLocs == {d.id : d \in SourceDists \cup UnnamedSources}

\* Built distributions, one per shape of BuiltDist and FileLocation.
RemoteKinds == {"RegistryRelativeUrl", "RegistryAbsoluteUrl", "DirectUrl"}
LocalKinds == {"RegistryPath", "Path"}

BuiltDists ==
    { Dist("Built", "RegistryRelativeUrl", "p", "W", TRUE, TRUE, TRUE),
      Dist("Built", "RegistryRelativeUrl", "p", "W", FALSE, TRUE, TRUE),
      Dist("Built", "RegistryAbsoluteUrl", "q", "W", TRUE, TRUE, TRUE),
      Dist("Built", "RegistryAbsoluteUrl", "q", "W", FALSE, TRUE, TRUE),
      Dist("Built", "RegistryAbsoluteUrl", "p", "W", TRUE, TRUE, FALSE),
      Dist("Built", "DirectUrl", "p", "W", TRUE, TRUE, TRUE),
      Dist("Built", "RegistryPath", "p", "W", TRUE, TRUE, TRUE),
      Dist("Built", "RegistryPath", "q", "W", TRUE, FALSE, TRUE),
      Dist("Built", "Path", "p", "W", TRUE, TRUE, TRUE) }

IsRemote(d) == d.variant = "Built" /\ d.kind \in RemoteKinds
IsLocal(d) == d.variant = "Built" /\ d.kind \in LocalKinds

\* Number of resolutions of a distribution each caller performs.
Rounds(d) == IF IsLocal(d) THEN MaxCalls ELSE 1

(***************************************************************************)
(* Values.                                                                  *)
(***************************************************************************)
\* crate::Error: a variant and, where the code looks at it, its cause.
Error(variant, cause) == [variant |-> variant, cause |-> cause]
NoError == Error(None, None)

\* Result<LocalWheel, Error> and Result<Metadata23, Error>.
Ok(kind, archive, path, tgt) ==
    [kind |-> kind, err |-> NoError, archive |-> archive, path |-> path, target |-> tgt]
Err(e) ==
    [kind |-> "Err", err |-> e, archive |-> None, path |-> None, target |-> None]
NoResult == [kind |-> None, err |-> NoError, archive |-> None, path |-> None, target |-> None]

NoReq == [op |-> None, dist |-> NoDist, db |-> None]
NoPrev == [req |-> NoReq, result |-> NoResult, since |-> -1]

\* An effect of a call: what was done and, for a failure, the error.
Ev(e) == [ev |-> e, variant |-> None, cause |-> None]
EvErr(e, err) == [ev |-> e, variant |-> err.variant, cause |-> err.cause]

\* A lock table entry: not yet created, or a Mutex with its holder.
NoLock == [created |-> FALSE, holder |-> NoCaller]

\* A caller's temporary directory: none, or directory `dir` and its content.
NoTemp == [dir |-> 0, state |-> None]

\* The cache destination of the wheel: its content, its timestamp, and the
\* temporary directory it was persisted from (0: it was there before).
NoArchive == [state |-> "absent", ts |-> 0, by |-> 0]

VARIABLES
    no_build,       \* build_context.no_build()
    no_binary,      \* build_context.no_binary()
    connectivity,   \* client.connectivity()
    wheel,          \* the built distribution the callers resolve
    pc,             \* each caller's position in the code
    req,            \* each caller's current request: [op, dist, db]
    result,         \* each caller's Result of the current call
    trace,          \* each caller's effects in the current call, in order
    calls,          \* number of calls each caller has started
    prev,           \* each caller's previous request and its result
    since,          \* fs_epoch when each caller's current call began
    cache_control,  \* each caller's CacheControl for the cached GET
    temp,           \* each caller's temporary directory
    locks,          \* per database: identity -> the Mutex of the lock table
    target,         \* the build destination of each source location
    builds,         \* download_and_build invocations per source location
    http,           \* the wheel's HTTP cache entry
    archive,        \* the wheel's cache destination
    source_file,    \* modification time of the local wheel file (-1: missing)
    fs_epoch        \* number of changes made to the files by others

vars == <<no_build, no_binary, connectivity, wheel, pc, req, result, trace, calls,
          prev, since, cache_control, temp, locks, target, builds, http, archive,
          source_file, fs_epoch>>

cfgVars == <<no_build, no_binary, connectivity, wheel>>
callVars == <<calls, prev, since>>
srcVars == <<locks, target, builds>>
fetchVars == <<cache_control, temp, http, archive>>
fsVars == <<source_file, fs_epoch>>

(***************************************************************************)
(* Pure functions of the code.                                              *)
(***************************************************************************)
\* build_wheel_metadata: source.name().is_some_and(|name| packages.contains(name))
no_build_covers(policy, dist) ==
    CASE policy.kind = "All" -> TRUE
      [] policy.kind = "None" -> FALSE
      [] OTHER -> dist.name # NoName /\ dist.name \in policy.packages

\* Faulty variant: the binary policy is never applied.
no_binary_covers_never(policy, dist) == FALSE

\* get_wheel: packages.contains(dist.name())
no_binary_covers(policy, dist) ==
    CASE policy.kind = "None" -> FALSE
      [] policy.kind = "All" -> TRUE
      [] OTHER -> dist.name \in policy.packages

\* Locks::acquire keys the table by the distribution's resource id, which is
\* derived from its resolved location.
resource_id(dist) == dist.id

\* The destination the builder reports for a source: built_wheel.target.
built_target(dist) == "built-" \o dist.id
built_path(dist) == "sdist-wheel-" \o dist.id

\* cache().entry(CacheBucket::Wheels, ..).path() and the wheel file's path.
cache_entry(dist) == "wheels-" \o dist.id
wheel_path(dist) == "file-" \o dist.id

\* err.is_http_streaming_unsupported()
is_http_streaming_unsupported(err) == err.cause = "StreamingUnsupported"

\* Faulty variant: every failure of the streaming attempt falls back.
falls_back_on_any(dist, err) == TRUE

\* get_wheel, lines 203 and 241: the match arm that falls back to
\* download_wheel. The registry arm matches Error::Extract, the direct URL
\* arm Error::Client.
falls_back(dist, err) ==
    /\ is_http_streaming_unsupported(err)
    /\ IF dist.kind = "DirectUrl" THEN err.variant = "Client" ELSE err.variant = "Extract"

\* std::fs::canonicalize of a path in the given state.
canonicalize(state) ==
    CASE state = "absent" -> "NotFound"
      [] state = "unreadable" -> "Other"
      [] OTHER -> "Ok"

\* Faulty variant: a cache destination is fresh only if strictly newer than the file.
up_to_date_with_strict(mtime, ts) == ts > mtime

\* ArchiveTimestamp::up_to_date_with: the cached archive was produced at or
\* after the file's last modification.
up_to_date_with(mtime, ts) == ts >= mtime

\* CacheControl::from(Freshness)
cache_control_from(freshness) ==
    IF freshness = "Fresh" THEN "None" ELSE "MustRevalidate"

\* Cache::freshness of an HTTP cache entry in the given state.
freshness(state) ==
    CASE state = "fresh" -> "Fresh"
      [] state = "stale" -> "Stale"
      [] OTHER -> "Missing"

Has(tr, e) == \E i \in 1 .. Len(tr) : tr[i].ev = e
Count(tr, e) == Cardinality({i \in 1 .. Len(tr) : tr[i].ev = e})

\* The strategy a caller is in: stream_wheel until download_wheel is called.
Strategy(c) == IF Has(trace[c], "download_wheel") THEN "download" ELSE "stream"

Emit(c, e) == trace' = [trace EXCEPT ![c] = Append(@, Ev(e))]

\* The call returns r; inside get_wheel_metadata, the wheel get_wheel
\* returns (line 346) is then read for its metadata (line 347).
Finish(c, r) ==
    /\ pc' = [pc EXCEPT ![c] =
                 IF req[c].op = "get_wheel_metadata" /\ r.kind \in {"Unzipped", "Disk"}
                   THEN "wheel_metadata_read" ELSE "done"]
    /\ result' = [result EXCEPT ![c] = r]

\* Faulty variant: the guard outlives the function.
Release_leaked(c) == UNCHANGED locks

\* Dropping the MutexGuard (_guard) at the end of the function.
Release(c) ==
    locks' = [locks EXCEPT ![req[c].db][resource_id(req[c].dist)].holder = NoCaller]

(***************************************************************************)
(* The public entry points.                                                 *)
(***************************************************************************)
Begin(c, op, dist, db, at) ==
    /\ pc[c] = "idle"
    /\ calls[c] < Rounds(dist)
    /\ req' = [req EXCEPT ![c] = [op |-> op, dist |-> dist, db |-> db]]
    /\ pc' = [pc EXCEPT ![c] = at]
    /\ calls' = [calls EXCEPT ![c] = @ + 1]
    /\ since' = [since EXCEPT ![c] = fs_epoch]
    /\ UNCHANGED <<cfgVars, result, trace, prev, srcVars, fetchVars, fsVars>>

\* get_or_build_wheel and get_or_build_wheel_metadata on Dist::Source, and
\* build_wheel_metadata on any BuildableSource.
StartSource(c) ==
    \E db \in Databases :
        \/ \E d \in SourceDists : Begin(c, "get_or_build_wheel", d, db, "build_wheel")
        \/ \E d \in SourceDists : Begin(c, "get_or_build_wheel_metadata", d, db, "build_wheel_metadata")
        \/ \E d \in UnnamedSources : Begin(c, "build_wheel_metadata", d, db, "build_wheel_metadata")

\* get_or_build_wheel on Dist::Built.
StartBuilt(c) ==
    \E db \in Databases : Begin(c, "get_or_build_wheel", wheel, db, "get_wheel")

\* The caller takes its result and is free to resolve again.
Return(c) ==
    /\ pc[c] = "done"
    /\ calls[c] < Rounds(req[c].dist)
    /\ pc' = [pc EXCEPT ![c] = "idle"]
    /\ prev' = [prev EXCEPT ![c] = [req |-> req[c], result |-> result[c], since |-> since[c]]]
    /\ req' = [req EXCEPT ![c] = NoReq]
    /\ result' = [result EXCEPT ![c] = NoResult]
    /\ trace' = [trace EXCEPT ![c] = <<>>]
    /\ cache_control' = [cache_control EXCEPT ![c] = None]
    /\ temp' = [temp EXCEPT ![c] = NoTemp]
    /\ UNCHANGED <<cfgVars, calls, since, srcVars, http, archive, fsVars>>

(***************************************************************************)
(* build_wheel and build_wheel_metadata.                                    *)
(***************************************************************************)
\* Faulty variant: every acquisition inserts a new Mutex for the identity.
locks_acquire_replacing(c, next) ==
    /\ locks' = [locks EXCEPT ![req[c].db][resource_id(req[c].dist)] =
                    [created |-> TRUE, holder |-> NoCaller]]
    /\ Emit(c, "locks.acquire")
    /\ pc' = [pc EXCEPT ![c] = next]
    /\ UNCHANGED <<cfgVars, req, result, callVars, target, builds, fetchVars, fsVars>>

\* self.locks.acquire(..).await: look the identity up, inserting a Mutex on
\* first use.
locks_acquire(c, next) ==
    /\ locks' = [locks EXCEPT ![req[c].db][resource_id(req[c].dist)].created = TRUE]
    /\ Emit(c, "locks.acquire")
    /\ pc' = [pc EXCEPT ![c] = next]
    /\ UNCHANGED <<cfgVars, req, result, callVars, target, builds, fetchVars, fsVars>>

\* Faulty variant: one Mutex for the whole table.
lock_lock_global(c, next) ==
    /\ \A l \in SourceLocs : locks[req[c].db][l].holder = NoCaller
    /\ locks' = [locks EXCEPT ![req[c].db][resource_id(req[c].dist)].holder = c]
    /\ Emit(c, "lock")
    /\ pc' = [pc EXCEPT ![c] = next]
    /\ UNCHANGED <<cfgVars, req, result, callVars, target, builds, fetchVars, fsVars>>

\* lock.lock().await: wait until the Mutex is free, then hold it.
lock_lock(c, next) ==
    /\ locks[req[c].db][resource_id(req[c].dist)].holder = NoCaller
    /\ locks' = [locks EXCEPT ![req[c].db][resource_id(req[c].dist)].holder = c]
    /\ Emit(c, "lock")
    /\ pc' = [pc EXCEPT ![c] = next]
    /\ UNCHANGED <<cfgVars, req, result, callVars, target, builds, fetchVars, fsVars>>

\* build_wheel, line 307.
build_wheel_acquire(c) ==
    /\ pc[c] = "build_wheel"
    /\ locks_acquire(c, "build_wheel_lock")

\* Faulty variant: the guard is not awaited; the build goes on without the lock.
build_wheel_lock_skipped(c) ==
    /\ pc[c] = "build_wheel_lock"
    /\ pc' = [pc EXCEPT ![c] = "build_wheel_build"]
    /\ UNCHANGED <<cfgVars, req, result, trace, callVars, srcVars, fetchVars, fsVars>>

\* build_wheel, line 308.
build_wheel_lock(c) ==
    /\ pc[c] = "build_wheel_lock"
    /\ lock_lock(c, "build_wheel_build")

\* build_wheel, lines 310-313: the call into the builder.
build_wheel_call(c) ==
    /\ pc[c] = "build_wheel_build"
    /\ builds' = [builds EXCEPT ![req[c].dist.id] = @ + 1]
    /\ Emit(c, "download_and_build")
    /\ pc' = [pc EXCEPT ![c] = "in_download_and_build"]
    /\ UNCHANGED <<cfgVars, req, result, callVars, locks, target, fetchVars, fsVars>>

\* The errors of the builder the model tells apart.
BackendErrors == {Error("Build", None), Error("NoBuild", None)}

\* build_wheel, line 314: the builder returns; an error leaves by `?`.
build_wheel_return(c) ==
    /\ pc[c] = "in_download_and_build"
    /\ \/ /\ pc' = [pc EXCEPT ![c] = "build_wheel_check"]
          /\ UNCHANGED <<result, locks>>
       \/ \E e \in BackendErrors :
            /\ Finish(c, Err(e))
            /\ Release(c)
    /\ UNCHANGED <<cfgVars, req, trace, callVars, target, builds, fetchVars, fsVars>>

\* Faulty variant: every failure to resolve the destination is taken for a
\* missing destination.
build_wheel_classify_any_error(dist, outcome) ==
    IF outcome = "Ok" THEN Ok("Unzipped", built_target(dist), None, None)
                      ELSE Ok("Built", None, built_path(dist), built_target(dist))

\* build_wheel, lines 318-333: the result by the destination's resolution.
build_wheel_classify(dist, outcome) ==
    CASE outcome = "Ok" -> Ok("Unzipped", built_target(dist), None, None)
      [] outcome = "NotFound" -> Ok("Built", None, built_path(dist), built_target(dist))
      [] OTHER -> Err(Error("CacheRead", None))

\* build_wheel, lines 318-333.
build_wheel_check(c) ==
    /\ pc[c] = "build_wheel_check"
    /\ Finish(c, build_wheel_classify(req[c].dist, canonicalize(target[req[c].dist.id])))
    /\ Emit(c, "canonicalize")
    /\ Release(c)
    /\ UNCHANGED <<cfgVars, req, callVars, target, builds, fetchVars, fsVars>>

\* Faulty variant: the lock table is consulted before the policy.
build_wheel_metadata_gate_late(c) ==
    /\ pc[c] = "build_wheel_metadata"
    /\ locks_acquire(c, "build_wheel_metadata_lock")

\* build_wheel_metadata, lines 357-368: the NoBuild gate.
build_wheel_metadata_gate(c) ==
    /\ pc[c] = "build_wheel_metadata"
    /\ IF no_build_covers(no_build, req[c].dist)
         THEN Finish(c, Err(Error("NoBuild", None)))
         ELSE /\ pc' = [pc EXCEPT ![c] = "build_wheel_metadata_acquire"]
              /\ UNCHANGED result
    /\ UNCHANGED <<cfgVars, req, trace, callVars, srcVars, fetchVars, fsVars>>

\* build_wheel_metadata, line 370.
build_wheel_metadata_acquire(c) ==
    /\ pc[c] = "build_wheel_metadata_acquire"
    /\ locks_acquire(c, "build_wheel_metadata_lock")

\* build_wheel_metadata, line 371.
build_wheel_metadata_lock(c) ==
    /\ pc[c] = "build_wheel_metadata_lock"
    /\ lock_lock(c, "build_wheel_metadata_build")

\* build_wheel_metadata, lines 373-376: the call into the builder.
build_wheel_metadata_call(c) ==
    /\ pc[c] = "build_wheel_metadata_build"
    /\ Emit(c, "download_and_build_metadata")
    /\ pc' = [pc EXCEPT ![c] = "in_download_and_build_metadata"]
    /\ UNCHANGED <<cfgVars, req, result, callVars, srcVars, fetchVars, fsVars>>

\* Faulty variant: with the metadata built, the wheel is built by a call of
\* build_wheel made while the guard is still held.
build_wheel_metadata_return_nested(c) ==
    /\ pc[c] = "in_download_and_build_metadata"
    /\ \/ /\ pc' = [pc EXCEPT ![c] = "build_wheel"]
          /\ UNCHANGED <<result, locks>>
       \/ \E e \in BackendErrors :
            /\ Finish(c, Err(e))
            /\ Release(c)
    /\ UNCHANGED <<cfgVars, req, trace, callVars, target, builds, fetchVars, fsVars>>

\* build_wheel_metadata, lines 377-378.
build_wheel_metadata_return(c) ==
    /\ pc[c] = "in_download_and_build_metadata"
    /\ \/ Finish(c, Ok("Metadata", None, None, None))
       \/ \E e \in BackendErrors : Finish(c, Err(e))
    /\ Release(c)
    /\ UNCHANGED <<cfgVars, req, trace, callVars, target, builds, fetchVars, fsVars>>

\* The caller of build_wheel unpacks a Built wheel into its target.
InstallBuilt(c) ==
    /\ pc[c] = "done"
    /\ result[c].kind = "Built"
    /\ target[req[c].dist.id] = "absent"
    /\ target' = [target EXCEPT ![req[c].dist.id] = "present"]
    /\ UNCHANGED <<cfgVars, pc, req, result, trace, callVars, locks, builds, fetchVars, fsVars>>

(***************************************************************************)
(* get_wheel.                                                               *)
(***************************************************************************)
\* The end of stream_wheel or download_wheel with an error, seen by
\* get_wheel's match (lines 194-220, 232-263): a failure of stream_wheel
\* that the arm accepts starts download_wheel, anything else is returned.
Raise(c, evs, err) ==
    IF Strategy(c) = "stream" /\ falls_back(req[c].dist, err)
      THEN /\ trace' = [trace EXCEPT ![c] =
                  @ \o evs \o <<EvErr("stream_wheel.err", err), Ev("download_wheel")>>]
           /\ pc' = [pc EXCEPT ![c] = "cache_control"]
           /\ UNCHANGED result
      ELSE /\ trace' = [trace EXCEPT ![c] =
                  @ \o evs \o <<EvErr(IF Strategy(c) = "stream" THEN "stream_wheel.err"
                                                              ELSE "download_wheel.err", err)>>]
           /\ Finish(c, Err(err))

\* The end of stream_wheel or download_wheel with the archive's path
\* (lines 198-202, 213-217, 236-240, 256-260).
Succeed(c, evs) ==
    /\ trace' = [trace EXCEPT ![c] = @ \o evs]
    /\ Finish(c, Ok("Unzipped", cache_entry(req[c].dist), None, None))

\* get_wheel, lines 129-191 and 223-229, 266-271: the NoBinary gate, then
\* the URL or the cache entry of the wheel by the kind of its location.
get_wheel(c) ==
    /\ pc[c] = "get_wheel"
    /\ LET d == req[c].dist IN
         IF no_binary_covers(no_binary, d)
           THEN /\ Finish(c, Err(Error("NoBinary", None)))
                /\ UNCHANGED trace
           ELSE CASE d.kind = "RegistryRelativeUrl" /\ ~d.url_ok ->
                       /\ Finish(c, Err(Error("JoinRelativeUrl", None)))
                       /\ UNCHANGED trace
                  [] d.kind = "RegistryAbsoluteUrl" /\ ~d.url_ok ->
                       /\ Finish(c, Err(Error("Url", None)))
                       /\ UNCHANGED trace
                  [] d.kind = "RegistryPath" /\ ~d.absolute ->
                       \* Url::from_file_path(path).expect("path is absolute")
                       /\ pc' = [pc EXCEPT ![c] = "panicked"]
                       /\ UNCHANGED <<result, trace>>
                  [] d.kind \in LocalKinds /\ d.absolute ->
                       /\ pc' = [pc EXCEPT ![c] = "local_canonicalize"]
                       /\ UNCHANGED <<result, trace>>
                  [] OTHER ->
                       /\ pc' = [pc EXCEPT ![c] = "cache_control"]
                       /\ Emit(c, "stream_wheel")
                       /\ UNCHANGED result
    /\ UNCHANGED <<cfgVars, req, callVars, srcVars, fetchVars, fsVars>>

\* Ok(LocalWheel::Disk(..)), lines 177-182 and 294-299.
disk_wheel(dist) == Ok("Disk", None, wheel_path(dist), cache_entry(dist))

\* Ok(LocalWheel::Unzipped(..)), lines 165-169 and 283-287.
unzipped_wheel(dist) == Ok("Unzipped", cache_entry(dist), None, None)

\* Faulty variant: a missing destination is created before the Disk handle is returned.
local_canonicalize_creating(c) ==
    /\ pc[c] = "local_canonicalize"
    /\ LET o == canonicalize(archive.state) IN
         /\ trace' = [trace EXCEPT ![c] = Append(@, [Ev("canonicalize") EXCEPT !.cause = o])]
         /\ CASE o = "Ok" -> /\ pc' = [pc EXCEPT ![c] = "local_timestamp"]
                             /\ UNCHANGED <<result, archive>>
              [] o = "NotFound" -> /\ Finish(c, disk_wheel(req[c].dist))
                                   /\ archive' = [state |-> "complete", ts |-> MaxTime, by |-> 0]
              [] OTHER -> /\ Finish(c, Err(Error("CacheRead", None)))
                          /\ UNCHANGED archive
    /\ UNCHANGED <<cfgVars, req, callVars, srcVars, cache_control, temp, http, fsVars>>

\* get_wheel, lines 157-158, 172-173 and 275-276, 290-291: resolve the cache
\* destination.
local_canonicalize(c) ==
    /\ pc[c] = "local_canonicalize"
    /\ LET o == canonicalize(archive.state) IN
         /\ trace' = [trace EXCEPT ![c] = Append(@, [Ev("canonicalize") EXCEPT !.cause = o])]
         /\ CASE o = "Ok" -> /\ pc' = [pc EXCEPT ![c] = "local_timestamp"]
                             /\ UNCHANGED result
              [] o = "NotFound" -> Finish(c, disk_wheel(req[c].dist))
              [] OTHER -> Finish(c, Err(Error("CacheRead", None)))
    /\ UNCHANGED <<cfgVars, req, callVars, srcVars, fetchVars, fsVars>>

\* Faulty variant: an existing destination is returned without the timestamps being
\* compared.
local_timestamp_unchecked(c) ==
    /\ pc[c] = "local_timestamp"
    /\ Emit(c, "up_to_date_with")
    /\ Finish(c, unzipped_wheel(req[c].dist))
    /\ UNCHANGED <<cfgVars, req, callVars, srcVars, fetchVars, fsVars>>

\* get_wheel, lines 159-170, 177-182 and 277-288, 294-299: compare the
\* timestamps; a failure to read either is Error::CacheRead.
local_timestamp(c) ==
    /\ pc[c] = "local_timestamp"
    /\ Emit(c, "up_to_date_with")
    /\ IF source_file < 0 \/ archive.state # "complete"
         THEN Finish(c, Err(Error("CacheRead", None)))
         ELSE IF up_to_date_with(source_file, archive.ts)
                THEN Finish(c, unzipped_wheel(req[c].dist))
                ELSE Finish(c, disk_wheel(req[c].dist))
    /\ UNCHANGED <<cfgVars, req, callVars, srcVars, fetchVars, fsVars>>

\* The wheel file is modified by its owner.
TouchSource ==
    /\ IsLocal(wheel)
    /\ source_file >= 0
    /\ source_file < MaxTime
    /\ source_file' = source_file + 1
    /\ fs_epoch' = fs_epoch + 1
    /\ UNCHANGED <<cfgVars, pc, req, result, trace, callVars, srcVars, fetchVars>>

\* The caller of get_wheel unzips a Disk wheel into its target.
InstallDisk(c) ==
    /\ pc[c] = "done"
    /\ result[c].kind = "Disk"
    /\ source_file >= 0
    /\ archive.state # "unreadable"
    /\ archive # [state |-> "complete", ts |-> source_file, by |-> 0]
    /\ archive' = [state |-> "complete", ts |-> source_file, by |-> 0]
    /\ fs_epoch' = fs_epoch + 1
    /\ UNCHANGED <<cfgVars, pc, req, result, trace, callVars, srcVars,
                   cache_control, temp, http, source_file>>

(***************************************************************************)
(* stream_wheel and download_wheel.                                         *)
(***************************************************************************)
\* Faulty variant: the freshness of the HTTP cache entry is read whatever the
\* connectivity.
select_cache_control_always_fresh(conn, state) ==
    cache_control_from(freshness(state))

\* stream_wheel, lines 416-424; download_wheel, lines 486-494.
select_cache_control(conn, state) ==
    IF conn = "Online" THEN cache_control_from(freshness(state)) ELSE "AllowStale"

\* Whether select_cache_control reads the entry's freshness.
reads_freshness(conn) == select_cache_control(conn, "fresh") # "AllowStale"

\* Faulty variant: download_wheel, being the fallback, accepts any cached
\* response without reading its freshness.
cache_control_step_download_stale(c) ==
    /\ pc[c] = "cache_control"
    /\ IF Strategy(c) = "stream" /\ connectivity = "Online"
         THEN IF http = "unreadable"
                THEN /\ Raise(c, <<Ev("freshness")>>, Error("CacheRead", None))
                     /\ UNCHANGED cache_control
                ELSE /\ cache_control' = [cache_control EXCEPT ![c] =
                                              cache_control_from(freshness(http))]
                     /\ trace' = [trace EXCEPT ![c] =
                                      Append(@, [Ev("freshness") EXCEPT !.cause = freshness(http)])]
                     /\ pc' = [pc EXCEPT ![c] = "get_serde"]
                     /\ UNCHANGED result
         ELSE /\ cache_control' = [cache_control EXCEPT ![c] = "AllowStale"]
              /\ pc' = [pc EXCEPT ![c] = "get_serde"]
              /\ UNCHANGED <<result, trace>>
    /\ UNCHANGED <<cfgVars, req, callVars, srcVars, temp, http, archive, fsVars>>

\* stream_wheel, lines 416-424; download_wheel, lines 486-494: a failure to
\* read the freshness is Error::CacheRead.
cache_control_step(c) ==
    /\ pc[c] = "cache_control"
    /\ IF reads_freshness(connectivity)
         THEN IF http = "unreadable"
                THEN /\ Raise(c, <<Ev("freshness")>>, Error("CacheRead", None))
                     /\ UNCHANGED cache_control
                ELSE /\ cache_control' = [cache_control EXCEPT ![c] =
                                              select_cache_control(connectivity, http)]
                     /\ trace' = [trace EXCEPT ![c] =
                                      Append(@, [Ev("freshness") EXCEPT !.cause = freshness(http)])]
                     /\ pc' = [pc EXCEPT ![c] = "get_serde"]
                     /\ UNCHANGED result
         ELSE /\ cache_control' = [cache_control EXCEPT ![c] =
                                       select_cache_control(connectivity, http)]
              /\ pc' = [pc EXCEPT ![c] = "get_serde"]
              /\ UNCHANGED <<result, trace>>
    /\ UNCHANGED <<cfgVars, req, callVars, srcVars, temp, http, archive, fsVars>>

\* CachedClient::get_serde answers from the HTTP cache entry, without a
\* request, when the entry is there and the cache control lets it be used.
cache_hit(cc, state) ==
    \/ cc = "AllowStale" /\ state \in {"fresh", "stale"}
    \/ cc = "None" /\ state = "fresh"

\* stream_wheel, lines 426-436; download_wheel, lines 496-506: build the
\* request (a reqwest::Error leaves by `?` as Error::Reqwest), then the
\* cached GET.
get_serde(c) ==
    /\ pc[c] = "get_serde"
    /\ IF ~req[c].dist.request_ok
         THEN Raise(c, <<>>, Error("Reqwest", None))
         ELSE IF cache_hit(cache_control[c], http)
                THEN Succeed(c, <<Ev("get_serde"), Ev("cache.hit")>>)
                ELSE /\ Emit(c, "get_serde")
                     /\ pc' = [pc EXCEPT ![c] = "transport"]
                     /\ UNCHANGED result
    /\ UNCHANGED <<cfgVars, req, callVars, srcVars, fetchVars, fsVars>>

\* The errors of the transport (CachedClientError::Client).
ClientErrors ==
    {Error("Client", "StreamingUnsupported"), Error("Client", "Other")}

\* The cached GET sends the request: an error, a revalidated entry, or a
\* response handed to the download callback. Offline, every request fails.
transport(c) ==
    /\ pc[c] = "transport"
    /\ \/ /\ connectivity = "Offline"
          /\ Raise(c, <<Ev("transport")>>, Error("Client", "Offline"))
          /\ UNCHANGED http
       \/ /\ connectivity = "Online"
          /\ \E e \in ClientErrors : Raise(c, <<Ev("transport")>>, e)
          /\ UNCHANGED http
       \/ /\ connectivity = "Online"
          /\ http \in {"fresh", "stale"}
          /\ Succeed(c, <<Ev("transport"), Ev("not_modified")>>)
          /\ http' = "fresh"
       \/ /\ connectivity = "Online"
          /\ Emit(c, "transport")
          /\ pc' = [pc EXCEPT ![c] = IF Strategy(c) = "stream" THEN "cb_tempdir" ELSE "cb_tempfile"]
          /\ UNCHANGED <<result, http>>
    /\ UNCHANGED <<cfgVars, req, callVars, srcVars, cache_control, temp, archive, fsVars>>

\* handle_response_errors, lines 65-76: the io::ErrorKind of a body error.
handle_response_errors(is_timeout) == IF is_timeout THEN "TimedOut" ELSE "Other"

BodyErrors == {handle_response_errors(t) : t \in BOOLEAN}

\* download_wheel, lines 458-459: tempfile_in.
cb_tempfile(c) ==
    /\ pc[c] = "cb_tempfile"
    /\ \/ /\ Emit(c, "tempfile")
          /\ pc' = [pc EXCEPT ![c] = "cb_copy"]
          /\ UNCHANGED result
       \/ Raise(c, <<Ev("tempfile")>>, Error("CacheWrite", "Other"))
    /\ UNCHANGED <<cfgVars, req, callVars, srcVars, fetchVars, fsVars>>

\* download_wheel, lines 460-463: copy the body into the temporary file; a
\* body error and a write error alike are Error::CacheWrite.
cb_copy(c) ==
    /\ pc[c] = "cb_copy"
    /\ \/ /\ Emit(c, "copy")
          /\ pc' = [pc EXCEPT ![c] = "cb_tempdir"]
          /\ UNCHANGED result
       \/ \E k \in BodyErrors : Raise(c, <<Ev("copy")>>, Error("CacheWrite", k))
    /\ UNCHANGED <<cfgVars, req, callVars, srcVars, fetchVars, fsVars>>

\* tempfile::tempdir_in names the directory as no other is or was named:
\* here by the caller, its call and its strategy.
fresh_dir(c) ==
    2 * ((c - 1) * MaxCalls + calls[c] - 1) + (IF Strategy(c) = "stream" THEN 1 ELSE 2)

\* stream_wheel, lines 400-401; download_wheel, lines 466-467: tempdir_in.
cb_tempdir(c) ==
    /\ pc[c] = "cb_tempdir"
    /\ \/ /\ Emit(c, "tempdir")
          /\ temp' = [temp EXCEPT ![c] = [dir |-> fresh_dir(c), state |-> "empty"]]
          /\ pc' = [pc EXCEPT ![c] = "cb_unzip"]
          /\ UNCHANGED result
       \/ /\ Raise(c, <<Ev("tempdir")>>, Error("CacheWrite", "Other"))
          /\ UNCHANGED temp
    /\ UNCHANGED <<cfgVars, req, callVars, srcVars, cache_control, http, archive, fsVars>>

\* Write the tree of a directory: the cache destination (dir 0) or the
\* caller's temporary directory.
WriteTree(c, dir, state) ==
    IF dir = 0
      THEN /\ archive' = [archive EXCEPT !.state = state]
           /\ UNCHANGED temp
      ELSE /\ temp' = [temp EXCEPT ![c].state = state]
           /\ UNCHANGED archive

\* Faulty variant: the archive is unpacked into the cache destination itself.
unzip_dir_in_place(c) == 0

\* stream_wheel, line 402; download_wheel, line 472: temp_dir.path().
unzip_dir(c) == temp[c].dir

\* stream_wheel, line 402; download_wheel, lines 468-472: the unpacking
\* starts (download_wheel first rewinds the file, Error::CacheWrite if that
\* fails). Leaving with an error drops the TempDir, which removes it.
cb_unzip(c) ==
    /\ pc[c] = "cb_unzip"
    /\ \/ /\ Emit(c, "unzip")
          /\ WriteTree(c, unzip_dir(c), "partial")
          /\ pc' = [pc EXCEPT ![c] = "cb_unzipping"]
          /\ UNCHANGED result
       \/ /\ Strategy(c) = "download"
          /\ Raise(c, <<Ev("seek")>>, Error("CacheWrite", "Other"))
          /\ temp' = [temp EXCEPT ![c].state = "removed"]
          /\ UNCHANGED archive
    /\ UNCHANGED <<cfgVars, req, callVars, srcVars, cache_control, http, fsVars>>

\* The errors of uv_extract (Error::Extract): of the archive, or of the body
\* being read while it is unpacked.
ExtractErrors(strategy) ==
    {Error("Extract", "StreamingUnsupported")}
        \cup IF strategy = "stream" THEN {Error("Extract", k) : k \in BodyErrors}
                                    ELSE {Error("Extract", "Other")}

\* stream_wheel, line 402; download_wheel, line 472: the unpacking ends.
cb_unzipping(c) ==
    /\ pc[c] = "cb_unzipping"
    /\ \/ /\ WriteTree(c, unzip_dir(c), "complete")
          /\ pc' = [pc EXCEPT ![c] = "cb_persist"]
          /\ UNCHANGED <<result, trace>>
       \/ /\ \E e \in ExtractErrors(Strategy(c)) : Raise(c, <<>>, e)
          /\ temp' = [temp EXCEPT ![c].state = "removed"]
          /\ UNCHANGED archive
    /\ UNCHANGED <<cfgVars, req, callVars, srcVars, cache_control, http, fsVars>>

\* stream_wheel, lines 405-408; download_wheel, lines 475-478:
\* temp_dir.into_path() gives up the guard, and persist is called.
cb_persist(c) ==
    /\ pc[c] = "cb_persist"
    /\ Emit(c, "persist")
    /\ pc' = [pc EXCEPT ![c] = "cb_persisting"]
    /\ UNCHANGED <<cfgVars, req, result, callVars, srcVars, cache_control, temp, http, archive, fsVars>>

\* Cache::persist moves the temporary directory to the destination in one
\* step, or fails (Error::CacheRead, lines 410 and 480) and moves nothing;
\* after the callback the cached GET writes the HTTP cache entry.
cb_persisting(c) ==
    /\ pc[c] = "cb_persisting"
    /\ \/ /\ archive' = [state |-> temp[c].state, ts |-> 0, by |-> temp[c].dir]
          /\ temp' = [temp EXCEPT ![c].state = "persisted"]
          /\ http' = "fresh"
          /\ Succeed(c, <<>>)
       \/ /\ Raise(c, <<>>, Error("CacheRead", None))
          /\ UNCHANGED <<archive, temp, http>>
    /\ UNCHANGED <<cfgVars, req, callVars, srcVars, cache_control, fsVars>>

\* The caller's future is dropped at an await of the fetch: a TempDir still
\* guarded is removed, and nothing else is undone.
Cancel(c) ==
    /\ pc[c] \in {"transport", "cb_copy", "cb_unzip", "cb_unzipping", "cb_persisting"}
    /\ pc' = [pc EXCEPT ![c] = "cancelled"]
    /\ temp' = [temp EXCEPT ![c].state =
                    IF pc[c] \in {"cb_unzip", "cb_unzipping"} /\ temp[c].dir # 0
                      THEN "removed" ELSE @]
    /\ UNCHANGED <<cfgVars, req, result, trace, callVars, srcVars, cache_control, http, archive, fsVars>>

(***************************************************************************)
(* Specifications.                                                          *)
(***************************************************************************)
NoPolicy == [kind |-> "None", packages |-> {}]

InitCallers ==
    /\ pc = [c \in Callers |-> "idle"]
    /\ req = [c \in Callers |-> NoReq]
    /\ result = [c \in Callers |-> NoResult]
    /\ trace = [c \in Callers |-> <<>>]
    /\ calls = [c \in Callers |-> 0]
    /\ prev = [c \in Callers |-> NoPrev]
    /\ since = [c \in Callers |-> 0]
    /\ cache_control = [c \in Callers |-> None]
    /\ temp = [c \in Callers |-> NoTemp]
    /\ locks = [db \in Databases |-> [l \in SourceLocs |-> NoLock]]
    /\ builds = [l \in SourceLocs |-> 0]
    /\ fs_epoch = 0

\* Source distributions are resolved: any NoBuild policy, and build
\* destinations that are not there yet or cannot be read.
Init ==
    /\ InitCallers
    /\ no_build \in Policies
    /\ no_binary = NoPolicy
    /\ connectivity = "Online"
    /\ wheel = NoDist
    /\ target \in [SourceLocs -> {"absent", "unreadable"}]
    /\ http = "absent"
    /\ archive = NoArchive
    /\ source_file = 0

\* A built distribution is resolved: any NoBinary policy and connectivity,
\* and a cache in any state an earlier run can have left: an HTTP cache entry
\* only beside a destination that was persisted.
InitBuilt ==
    /\ InitCallers
    /\ no_build = NoPolicy
    /\ no_binary \in Policies
    /\ wheel \in BuiltDists
    /\ target = [l \in SourceLocs |-> "absent"]
    /\ IF IsRemote(wheel)
         THEN /\ connectivity \in {"Online", "Offline"}
              /\ http \in {"absent", "fresh", "stale", "unreadable"}
              /\ archive = IF http \in {"fresh", "stale"}
                             THEN [state |-> "complete", ts |-> 0, by |-> 0]
                             ELSE NoArchive
              /\ source_file = 0
         ELSE /\ connectivity = "Online"
              /\ http = "absent"
              /\ archive \in {NoArchive, [NoArchive EXCEPT !.state = "unreadable"]}
                                \cup {[state |-> "complete", ts |-> t, by |-> 0] : t \in 0 .. MaxTime}
              /\ source_file \in -1 .. MaxTime

Next ==
    \E c \in Callers :
        \/ StartSource(c)
        \/ build_wheel_acquire(c)
        \/ build_wheel_lock(c)
        \/ build_wheel_call(c)
        \/ build_wheel_return(c)
        \/ build_wheel_check(c)
        \/ build_wheel_metadata_gate(c)
        \/ build_wheel_metadata_acquire(c)
        \/ build_wheel_metadata_lock(c)
        \/ build_wheel_metadata_call(c)
        \/ build_wheel_metadata_return(c)
        \/ InstallBuilt(c)

NextBuilt ==
    \/ TouchSource
    \/ \E c \in Callers :
        \/ StartBuilt(c)
        \/ get_wheel(c)
        \/ local_canonicalize(c)
        \/ local_timestamp(c)
        \/ cache_control_step(c)
        \/ get_serde(c)
        \/ transport(c)
        \/ cb_tempfile(c)
        \/ cb_copy(c)
        \/ cb_tempdir(c)
        \/ cb_unzip(c)
        \/ cb_unzipping(c)
        \/ cb_persist(c)
        \/ cb_persisting(c)
        \/ Cancel(c)
        \/ InstallDisk(c)
        \/ Return(c)

\* Concurrent resolutions of source distributions.
Spec == Init /\ [][Next]_vars

\* Concurrent resolutions of one built distribution.
SpecBuilt == InitBuilt /\ [][NextBuilt]_vars

(***************************************************************************)
(* Properties.                                                              *)
(***************************************************************************)
InBackend(c) == pc[c] \in {"in_download_and_build", "in_download_and_build_metadata"}

\* From the backend call to the end of the post-build check of the destination.
InBuildSection(c) ==
    pc[c] \in {"build_wheel_build", "in_download_and_build", "build_wheel_check",
               "build_wheel_metadata_build", "in_download_and_build_metadata"}

IsSourceCall(c) == req[c].dist.variant = "Source"
IsBuiltCall(c) == req[c].dist.variant = "Built"

SameIdentity(c, d) ==
    /\ IsSourceCall(c) /\ IsSourceCall(d)
    /\ req[c].db = req[d].db
    /\ resource_id(req[c].dist) = resource_id(req[d].dist)

\* C1: on one DistributionDatabase, a caller that is about to call, is inside,
\* or is checking the destination after download_and_build or
\* download_and_build_metadata holds the lock of its source's identity, and no
\* two callers of one identity are in that section (so in the backend) at once.
C1_MutualExclusion ==
    /\ \A c \in Callers :
         InBuildSection(c) =>
            locks[req[c].db][resource_id(req[c].dist)] = [created |-> TRUE, holder |-> c]
    /\ \A c, d \in Callers :
         (c # d /\ InBuildSection(c) /\ InBuildSection(d)) => ~SameIdentity(c, d)

\* One caller is inside the backend while another waits for the same lock.
C1_Witness ==
    \E c, d \in Callers :
        /\ c # d
        /\ pc[c] = "in_download_and_build"
        /\ pc[d] \in {"build_wheel_lock", "build_wheel_metadata_lock"}
        /\ SameIdentity(c, d)

WheelCallsOf(l) ==
    {c \in Callers : req[c].op = "get_or_build_wheel" /\ IsSourceCall(c) /\ req[c].dist.id = l}

\* C2 as stated: concurrent get_or_build_wheel calls for one source identity
\* invoke download_and_build exactly once, and the callers that get a wheel
\* get the same handle.
C2_ExactlyOneBuild ==
    \A l \in SourceLocs :
        /\ builds[l] <= 1
        /\ \A c, d \in WheelCallsOf(l) :
             (pc[c] = "done" /\ pc[d] = "done" /\ result[c].kind # "Err" /\ result[d].kind # "Err")
                => result[c] = result[d]

\* C2, as build_wheel behaves: every get_or_build_wheel call for a source identity invokes
\* download_and_build once, under the lock, whatever earlier calls left
\* behind: N concurrent calls make N invocations. The destination is checked
\* only after the caller's own invocation returned, and decides between
\* Unzipped and Built.
C2_OneBuildPerCall ==
    /\ \A c \in Callers :
         (req[c].op = "get_or_build_wheel" /\ IsSourceCall(c) /\ pc[c] = "done") =>
            /\ Count(trace[c], "download_and_build") = 1
            /\ result[c].kind \in {"Unzipped", "Built"} =>
                 trace[c] = <<Ev("locks.acquire"), Ev("lock"), Ev("download_and_build"),
                              Ev("canonicalize")>>
    /\ \A l \in SourceLocs :
         builds[l] = Cardinality({c \in WheelCallsOf(l) : Has(trace[c], "download_and_build")})

\* Two concurrent callers of one identity are done after two builds, the
\* second having found the destination the first one's caller unpacked.
C2_Witness ==
    \E c, d \in Callers :
        /\ c # d
        /\ SameIdentity(c, d)
        /\ pc[c] = "done" /\ pc[d] = "done"
        /\ result[c].kind = "Built" /\ result[d].kind = "Unzipped"
        /\ builds[req[c].dist.id] = 2

NoBuildCovered(c) == IsSourceCall(c) /\ no_build_covers(no_build, req[c].dist)
NoBinaryCovered(c) == IsBuiltCall(c) /\ no_binary_covers(no_binary, req[c].dist)

\* The NoBinary policy in force is All, or names the wheel's package.
BinaryForbidden(dist) ==
    \/ no_binary.kind = "All"
    \/ no_binary.kind = "Packages" /\ dist.name \in no_binary.packages

\* C3: with a NoBinary policy covering the package, get_or_build_wheel on a
\* built distribution of any location ends with Error::NoBinary, and nothing
\* (no request, no cache read or write, no comparison of timestamps) was done
\* before.
C3_NoBinaryFirst ==
    \A c \in Callers :
        (req[c].op = "get_or_build_wheel" /\ IsBuiltCall(c) /\ BinaryForbidden(req[c].dist)) =>
            /\ pc[c] \in {"get_wheel", "done"}
            /\ trace[c] = <<>>
            /\ temp[c] = NoTemp
            /\ pc[c] = "done" => result[c] = Err(Error("NoBinary", None))

\* A covered wheel named by a per-package policy was rejected, its cache
\* untouched.
C3_Witness ==
    \E c \in Callers :
        /\ IsBuiltCall(c)
        /\ BinaryForbidden(req[c].dist)
        /\ no_binary.kind = "Packages"
        /\ pc[c] = "done"
        /\ result[c] = Err(Error("NoBinary", None))

\* C4 as stated: with a NoBuild policy covering the package,
\* get_or_build_wheel on a source distribution takes no lock and invokes no
\* build, and ends with Error::NoBuild.
C4_NoBuildGatesBuildWheel ==
    \A c \in Callers :
        (req[c].op = "get_or_build_wheel" /\ NoBuildCovered(c)) =>
            /\ trace[c] = <<>>
            /\ pc[c] = "done" => result[c] = Err(Error("NoBuild", None))

\* C4, as build_wheel behaves: get_or_build_wheel on a source distribution is not gated by
\* NoBuild. With the policy covering the package, build_wheel still acquires
\* the lock and invokes download_and_build, and any error it returns is one
\* the builder or the destination check produced after that.
C4_BuildWheelIsNotGated ==
    \A c \in Callers :
        (req[c].op = "get_or_build_wheel" /\ NoBuildCovered(c) /\ pc[c] = "done") =>
            /\ Len(trace[c]) >= 3
            /\ SubSeq(trace[c], 1, 3) = <<Ev("locks.acquire"), Ev("lock"), Ev("download_and_build")>>

\* A covered package's wheel was built and returned.
C4_Witness ==
    \E c \in Callers :
        /\ req[c].op = "get_or_build_wheel"
        /\ NoBuildCovered(c)
        /\ no_build.kind = "Packages"
        /\ pc[c] = "done"
        /\ result[c].kind = "Built"

\* C5: with a NoBuild policy covering the source, build_wheel_metadata (also
\* through get_or_build_wheel_metadata) ends with Error::NoBuild having
\* neither asked for the lock, nor waited for it, nor invoked
\* download_and_build_metadata.
C5_NoBuildGatesMetadata ==
    \A c \in Callers :
        (req[c].op \in {"get_or_build_wheel_metadata", "build_wheel_metadata"} /\ NoBuildCovered(c)) =>
            /\ pc[c] \in {"build_wheel_metadata", "done"}
            /\ trace[c] = <<>>
            /\ pc[c] = "done" => result[c] = Err(Error("NoBuild", None))

\* A covered metadata request was rejected while another caller was building
\* the same identity under its lock.
C5_Witness ==
    \E c, d \in Callers :
        /\ c # d
        /\ req[c].op = "get_or_build_wheel_metadata"
        /\ NoBuildCovered(c)
        /\ pc[c] = "done" /\ result[c] = Err(Error("NoBuild", None))
        /\ SameIdentity(c, d)
        /\ pc[d] = "in_download_and_build"

IsRemoteCall(c) == IsBuiltCall(c) /\ IsRemote(req[c].dist)
IsLocalCall(c) == IsBuiltCall(c) /\ IsLocal(req[c].dist) /\ req[c].dist.absolute

\* The error a call's i-th effect carries.
ErrorAt(c, i) == Error(trace[c][i].variant, trace[c][i].cause)

\* C6: for a registry-URL or direct-URL wheel, get_wheel runs stream_wheel
\* once; download_wheel runs at most once, and only right after stream_wheel
\* failed with the streaming-unsupported signal; any other error of
\* stream_wheel and any error of download_wheel (a streaming-unsupported one
\* too) ends the call and is its result, unchanged; so a call sends at most
\* two requests.
C6_OneFallback ==
    \A c \in Callers :
        IsRemoteCall(c) =>
            /\ Count(trace[c], "stream_wheel") <= 1
            /\ Count(trace[c], "download_wheel") <= 1
            /\ Count(trace[c], "get_serde") <= 2
            /\ Count(trace[c], "transport") <= 2
            /\ \A i \in 1 .. Len(trace[c]) :
                 /\ trace[c][i].ev = "stream_wheel" => i = 1
                 /\ trace[c][i].ev = "download_wheel" =>
                       /\ i > 1
                       /\ trace[c][i - 1].ev = "stream_wheel.err"
                       /\ is_http_streaming_unsupported(ErrorAt(c, i - 1))
                 /\ trace[c][i].ev = "stream_wheel.err" =>
                       \/ i < Len(trace[c]) /\ trace[c][i + 1].ev = "download_wheel"
                       \/ i = Len(trace[c]) /\ pc[c] = "done" /\ result[c] = Err(ErrorAt(c, i))
                 /\ (trace[c][i].ev = "stream_wheel.err"
                        /\ ~is_http_streaming_unsupported(ErrorAt(c, i))) => i = Len(trace[c])
                 /\ trace[c][i].ev = "download_wheel.err" =>
                       i = Len(trace[c]) /\ pc[c] = "done" /\ result[c] = Err(ErrorAt(c, i))

\* After the one fallback, download_wheel failed with the
\* streaming-unsupported signal again, and that error is the call's result.
C6_Witness ==
    \E c \in Callers :
        /\ IsRemoteCall(c)
        /\ pc[c] = "done"
        /\ Count(trace[c], "transport") = 2
        /\ trace[c][Len(trace[c])].ev = "download_wheel.err"
        /\ result[c].kind = "Err"
        /\ is_http_streaming_unsupported(result[c].err)

\* A caller's second resolution of the same local wheel has ended, and no
\* file changed since its first one began.
SecondCallUnchanged(c) ==
    /\ IsLocalCall(c)
    /\ ~NoBinaryCovered(c)
    /\ pc[c] = "done"
    /\ prev[c].req = req[c]
    /\ prev[c].since = fs_epoch

LocalEffects == {"canonicalize", "up_to_date_with"}

\* C7 as stated: the second of two resolutions of a local wheel, the files
\* unchanged in between, returns an Unzipped handle equal to the first's.
C7_SecondCallUnzipped ==
    \A c \in Callers :
        SecondCallUnchanged(c) =>
            /\ result[c].kind = "Unzipped"
            /\ result[c] = prev[c].result

\* C7 amended: the second of two resolutions of a local wheel, the files
\* unchanged in between, makes no request and no build (it only resolves the
\* cache destination and compares timestamps) and returns what the first
\* returned: Unzipped if the first was Unzipped, else the same Disk handle or
\* the same CacheRead error.
C7_SecondCallSameResult ==
    \A c \in Callers :
        SecondCallUnchanged(c) =>
            /\ \A i \in 1 .. Len(trace[c]) : trace[c][i].ev \in LocalEffects
            /\ builds = [l \in SourceLocs |-> 0]
            /\ result[c] = prev[c].result
            /\ result[c].kind \in {"Unzipped", "Disk", "Err"}
            /\ result[c].kind = "Err" => result[c].err = Error("CacheRead", None)

\* Both resolutions returned the cached Unzipped handle.
C7_Witness ==
    \E c \in Callers :
        /\ SecondCallUnchanged(c)
        /\ result[c].kind = "Unzipped"
        /\ prev[c].result = result[c]
        /\ Len(trace[c]) = 2

\* What get_wheel owes for a local wheel, by the state of the files.
LocalOutcome(dist) ==
    CASE archive.state = "absent" -> disk_wheel(dist)
      [] archive.state = "unreadable" -> Err(Error("CacheRead", None))
      [] source_file < 0 -> Err(Error("CacheRead", None))
      [] archive.ts >= source_file -> unzipped_wheel(dist)
      [] OTHER -> disk_wheel(dist)

\* C8: for a wheel at a local path (BuiltDist::Path or a registry file with a
\* path), with the files unchanged during the call, get_wheel returns
\* Unzipped exactly when the cache destination exists and is not older than
\* the wheel file; a missing destination or a newer wheel file gives the Disk
\* handle of the wheel's path and the destination; any other failure gives
\* Error::CacheRead.
C8_LocalWheel ==
    \A c \in Callers :
        (IsLocalCall(c) /\ ~NoBinaryCovered(c) /\ pc[c] = "done" /\ since[c] = fs_epoch) =>
            /\ result[c] = LocalOutcome(req[c].dist)
            /\ result[c].kind = "Disk" =>
                 /\ result[c].path = wheel_path(req[c].dist)
                 /\ result[c].target = cache_entry(req[c].dist)

\* The wheel file was modified after the destination was unpacked, and the
\* next resolution returned a Disk handle.
C8_Witness ==
    \E c \in Callers :
        /\ IsLocalCall(c)
        /\ req[c].dist.kind = "RegistryPath"
        /\ pc[c] = "done"
        /\ since[c] = fs_epoch
        /\ fs_epoch > 0
        /\ archive.state = "complete"
        /\ archive.ts < source_file
        /\ result[c].kind = "Disk"

\* The request of a remote wheel can be formed: its URL and the GET.
Requestable(d) == d.url_ok /\ d.request_ok

\* The freshness a call's last reading of the HTTP cache entry gave.
LastFreshness(c) ==
    LET I == {i \in 1 .. Len(trace[c]) : trace[c][i].ev = "freshness"}
        last == CHOOSE i \in I : \A j \in I : j <= i
    IN  trace[c][last].cause

\* C9: Offline, stream_wheel and download_wheel choose AllowStale and never
\* read the freshness of the HTTP cache entry, so a call whose request can be
\* formed and whose entry is there (fresh or stale) ends with the Unzipped
\* archive and no request sent, never with a transport or CacheRead error;
\* Online, the cache control is the one the freshness read gives.
C9_OfflineAllowStale ==
    \A c \in Callers :
        (IsRemoteCall(c) /\ ~NoBinaryCovered(c)) =>
            /\ connectivity = "Offline" =>
                 /\ ~Has(trace[c], "freshness")
                 /\ cache_control[c] \in {None, "AllowStale"}
                 /\ pc[c] \notin {"get_wheel", "cache_control"} /\ Requestable(req[c].dist)
                       => cache_control[c] = "AllowStale"
                 /\ (http \in {"fresh", "stale"} /\ Requestable(req[c].dist) /\ pc[c] = "done") =>
                       /\ result[c] = unzipped_wheel(req[c].dist)
                       /\ ~Has(trace[c], "transport")
            /\ (connectivity = "Online" /\ cache_control[c] # None) =>
                 /\ Has(trace[c], "freshness")
                 /\ cache_control[c] = cache_control_from(LastFreshness(c))

\* Offline, a stale entry served the wheel.
C9_Witness ==
    \E c \in Callers :
        /\ IsRemoteCall(c)
        /\ connectivity = "Offline"
        /\ http = "stale"
        /\ pc[c] = "done"
        /\ cache_control[c] = "AllowStale"
        /\ result[c].kind = "Unzipped"
        /\ Has(trace[c], "cache.hit")

\* C10: while callers fetch the same remote wheel, each unpacks into a
\* temporary directory of its own, never the destination and never another
\* caller's; the destination is absent or complete, never partly written, and
\* what is there was there before or was moved by persist from a completely
\* unpacked directory; a failed or dropped attempt leaves the destination as
\* it was.
C10_PersistOnly ==
    IsRemote(wheel) =>
        /\ archive.state \in {"absent", "complete"}
        /\ archive.by # 0 =>
             /\ archive.state = "complete"
             /\ \E c \in Callers : temp[c] = [dir |-> archive.by, state |-> "persisted"]
        /\ \A c \in Callers :
             /\ pc[c] = "cb_unzipping" =>
                  /\ unzip_dir(c) # 0
                  /\ temp[c] = [dir |-> unzip_dir(c), state |-> "partial"]
             /\ temp[c].state = "persisted" => pc[c] = "done" /\ result[c].kind = "Unzipped"
             /\ \A d \in Callers \ {c} : temp[c].dir # 0 => temp[c].dir # temp[d].dir

\* One caller persisted its directory while another, dropped while
\* unpacking, left only its own directory behind.
C10_Witness ==
    \E c, d \in Callers :
        /\ c # d
        /\ pc[c] = "cancelled" /\ temp[c].state = "removed"
        /\ temp[d].state = "persisted"
        /\ archive = [state |-> "complete", ts |-> 0, by |-> temp[d].dir]

(***************************************************************************)
(* Progress of the source path.                                             *)
(***************************************************************************)
\* The steps of a call that is under way: the executor polls a future that
\* can proceed, and the builder's call returns.
Proceed(c) ==
    \/ build_wheel_acquire(c)
    \/ build_wheel_call(c)
    \/ build_wheel_return(c)
    \/ build_wheel_check(c)
    \/ build_wheel_metadata_gate(c)
    \/ build_wheel_metadata_acquire(c)
    \/ build_wheel_metadata_call(c)
    \/ build_wheel_metadata_return(c)

\* tokio's Mutex hands the lock to its waiters in turn.
Locking(c) == build_wheel_lock(c) \/ build_wheel_metadata_lock(c)

\* Spec, with every call under way proceeding and every builder call
\* returning.
SpecFair ==
    /\ Init
    /\ [][Next]_vars
    /\ \A c \in Callers : WF_vars(Proceed(c)) /\ SF_vars(Locking(c))

AwaitsLock(c) == pc[c] \in {"build_wheel_lock", "build_wheel_metadata_lock"}

HoldsLock(c) ==
    /\ IsSourceCall(c)
    /\ locks[req[c].db][resource_id(req[c].dist)].holder = c

\* C11: build_wheel and build_wheel_metadata hold the lock of the identity
\* only while they run: a call that has ended (the builder's success, its
\* error, or Error::CacheRead from the destination) holds no lock; and with
\* every builder call returning, every caller waiting for the lock of an
\* identity gets it.
C11_LockReleased ==
    /\ [](\A c \in Callers : \A db \in Databases : \A l \in SourceLocs :
             locks[db][l].holder = c => (pc[c] \notin {"idle", "done"} /\ HoldsLock(c)))
    /\ \A c \in Callers : AwaitsLock(c) ~> HoldsLock(c)

\* A caller is inside the builder under a lock that a failed build of the
\* same identity held before.
C11_Witness ==
    \E c, d \in Callers :
        /\ c # d
        /\ SameIdentity(c, d)
        /\ pc[c] = "done"
        /\ result[c] = Err(Error("Build", None))
        /\ Has(trace[d], "locks.acquire")
        /\ pc[d] = "in_download_and_build"
        /\ HoldsLock(d)

\* No other caller of c's identity is between taking and dropping the lock.
IdentityFree(c) ==
    \A d \in Callers \ {c} : ~(SameIdentity(c, d) /\ InBuildSection(d))

\* C12: a caller of one identity is never kept waiting by callers of another:
\* whatever the others hold or wait for, it can look its lock up, and it can
\* take the lock whenever no caller of its own identity has it, and go on
\* into the builder.
C12_IndependentIdentities ==
    \A c \in Callers :
        /\ pc[c] \in {"build_wheel", "build_wheel_metadata_acquire"} =>
              ENABLED (build_wheel_acquire(c) \/ build_wheel_metadata_acquire(c))
        /\ (AwaitsLock(c) /\ IdentityFree(c)) => ENABLED Locking(c)
        /\ pc[c] \in {"build_wheel_build", "build_wheel_metadata_build"} =>
              ENABLED (build_wheel_call(c) \/ build_wheel_metadata_call(c))

\* B's caller is inside the builder while A's build is still going on.
C12_Witness ==
    \E c, d \in Callers :
        /\ c # d
        /\ req[c].dist.id = "A" /\ req[d].dist.id = "B"
        /\ pc[c] = "in_download_and_build"
        /\ Has(trace[d], "lock")
        /\ Len(trace[c]) = 3
        /\ pc[d] = "in_download_and_build"

\* C13: no public operation panics: every failure, a registry file with a
\* path that is not absolute too, ends the call with a typed Error.
C13_NoPanic ==
    \A c \in Callers :
        /\ pc[c] # "panicked"
        /\ (IsBuiltCall(c) /\ req[c].dist.kind = "RegistryPath" /\ ~req[c].dist.absolute
              /\ ~NoBinaryCovered(c) /\ pc[c] \notin {"idle", "get_wheel"})
             => (pc[c] = "done" /\ result[c].kind = "Err")

\* get_wheel panicked on a registry file whose path is not absolute.
C13_Witness ==
    \E c \in Callers :
        /\ IsBuiltCall(c)
        /\ req[c].dist.kind = "RegistryPath"
        /\ ~req[c].dist.absolute
        /\ pc[c] = "panicked"
        /\ result[c] = NoResult

\* A caller's request is sent or its response is being stored and unpacked.
Fetching(c) ==
    /\ IsRemoteCall(c)
    /\ pc[c] \in {"transport", "cb_tempfile", "cb_copy", "cb_tempdir", "cb_unzip",
                  "cb_unzipping", "cb_persist", "cb_persisting"}

\* C14: of the concurrent get_or_build_wheel calls for one remote wheel (one
\* cache entry), at most one is downloading or unpacking at a time.
C14_SerializedFetch ==
    \A c, d \in Callers :
        (c # d /\ cache_entry(req[c].dist) = cache_entry(req[d].dist))
            => ~(Fetching(c) /\ Fetching(d))

\* Two callers of one database are unpacking the same wheel at once.
C14_Witness ==
    \E c, d \in Callers :
        /\ c # d
        /\ req[c] = req[d]
        /\ pc[c] = "cb_unzipping" /\ pc[d] = "cb_unzipping"
        /\ temp[c].state = "partial" /\ temp[d].state = "partial"

\* C16: for registry-URL and direct-URL wheels alike, a streaming-unsupported
\* failure of stream_wheel, reported by the transport (Error::Client) or by
\* the unpacking (Error::Extract), is followed by download_wheel and is never
\* the result of the call.
C16_UniformFallback ==
    \A c \in Callers :
        IsRemoteCall(c) =>
            \A i \in 1 .. Len(trace[c]) :
                (trace[c][i].ev = "stream_wheel.err"
                    /\ trace[c][i].variant \in {"Client", "Extract"}
                    /\ is_http_streaming_unsupported(ErrorAt(c, i))) =>
                        /\ i < Len(trace[c])
                        /\ trace[c][i + 1].ev = "download_wheel"

\* A registry wheel's call ended with the transport's streaming-unsupported
\* error, download_wheel never tried.
C16_Witness ==
    \E c \in Callers :
        /\ IsRemoteCall(c)
        /\ req[c].dist.kind \in {"RegistryRelativeUrl", "RegistryAbsoluteUrl"}
        /\ pc[c] = "done"
        /\ result[c] = Err(Error("Client", "StreamingUnsupported"))
        /\ ~Has(trace[c], "download_wheel")

\* A direct URL wheel's call ended with the unpacking's streaming-unsupported
\* error, download_wheel never tried.
C16_WitnessDirectUrl ==
    \E c \in Callers :
        /\ IsRemoteCall(c)
        /\ req[c].dist.kind = "DirectUrl"
        /\ pc[c] = "done"
        /\ result[c] = Err(Error("Extract", "StreamingUnsupported"))
        /\ ~Has(trace[c], "download_wheel")

\* C20: once stream_wheel or download_wheel has ended, in success, in any
\* error, or dropped at an await, the temporary directory the attempt made is
\* gone: removed, or moved to the cache destination by a persist that
\* succeeded.
C20_NoTempLeft ==
    \A c \in Callers :
        (IsRemoteCall(c) /\ pc[c] \in {"done", "cancelled"}) =>
            /\ temp[c].state \in {None, "removed", "persisted"}
            /\ temp[c].state = "persisted" => result[c].kind = "Unzipped"

\* persist failed, and the directory unpacked for it is still there.
C20_Witness ==
    \E c \in Callers :
        /\ IsRemoteCall(c)
        /\ pc[c] = "done"
        /\ result[c] = Err(Error("CacheRead", None))
        /\ Has(trace[c], "persist")
        /\ temp[c].dir # 0
        /\ temp[c].state = "complete"

\* What build_wheel owes after a build that succeeded, by the destination.
BuiltOutcome(dist, state) ==
    CASE state = "present" -> Ok("Unzipped", "built-" \o dist.id, None, None)
      [] state = "absent" -> Ok("Built", None, "sdist-wheel-" \o dist.id, "built-" \o dist.id)
      [] OTHER -> Err(Error("CacheRead", None))

\* C17: after a build that succeeded, build_wheel returns by the resolution
\* of the destination alone: Unzipped with the destination if it exists,
\* Built with the builder's path and target if it is not found,
\* Error::CacheRead for any other failure; an error of the builder is
\* returned with the destination never looked at.
C17_Classification ==
    [][\A c \in Callers :
          (req[c].op = "get_or_build_wheel" /\ IsSourceCall(c) /\ pc'[c] = "done" /\ pc[c] # "done") =>
             IF pc[c] = "build_wheel_check"
               THEN /\ result'[c] = BuiltOutcome(req[c].dist, target[req[c].dist.id])
                    /\ trace'[c] = Append(trace[c], Ev("canonicalize"))
               ELSE /\ pc[c] = "in_download_and_build"
                    /\ result'[c].kind = "Err"
                    /\ result'[c].err \in BackendErrors
                    /\ trace'[c] = trace[c]
                    /\ ~Has(trace[c], "canonicalize")]_vars

\* One build failed in the builder, never looking at the destination, and
\* another of the same source found a destination it could not read.
C17_Witness ==
    \E c, d \in Callers :
        /\ c # d
        /\ req[c].op = "get_or_build_wheel" /\ req[d].op = "get_or_build_wheel"
        /\ SameIdentity(c, d)
        /\ pc[c] = "done" /\ pc[d] = "done"
        /\ result[c] = Err(Error("CacheRead", None))
        /\ Has(trace[c], "canonicalize")
        /\ result[d] = Err(Error("Build", None))
        /\ ~Has(trace[d], "canonicalize")

(***************************************************************************)
(* Several DistributionDatabase instances in one process.                   *)
(***************************************************************************)
\* DistributionDatabase::new is called more than once: each instance has the
\* Locks its own new() made (line 50); with_reporter keeps them (..self).
Instances == {"db1", "db2"}

\* get_or_build_wheel on Dist::Source, through any of the instances.
StartSourceAt(c) ==
    \E db \in Instances : \E d \in SourceDists :
        Begin(c, "get_or_build_wheel", d, db, "build_wheel")

InitInstances ==
    /\ pc = [c \in Callers |-> "idle"]
    /\ req = [c \in Callers |-> NoReq]
    /\ result = [c \in Callers |-> NoResult]
    /\ trace = [c \in Callers |-> <<>>]
    /\ calls = [c \in Callers |-> 0]
    /\ prev = [c \in Callers |-> NoPrev]
    /\ since = [c \in Callers |-> 0]
    /\ cache_control = [c \in Callers |-> None]
    /\ temp = [c \in Callers |-> NoTemp]
    /\ locks = [db \in Instances |-> [l \in SourceLocs |-> NoLock]]
    /\ builds = [l \in SourceLocs |-> 0]
    /\ fs_epoch = 0
    /\ no_build = NoPolicy
    /\ no_binary = NoPolicy
    /\ connectivity = "Online"
    /\ wheel = NoDist
    /\ target \in [SourceLocs -> {"absent", "unreadable"}]
    /\ http = "absent"
    /\ archive = NoArchive
    /\ source_file = 0

NextInstances ==
    \E c \in Callers :
        \/ StartSourceAt(c)
        \/ build_wheel_acquire(c)
        \/ build_wheel_lock(c)
        \/ build_wheel_call(c)
        \/ build_wheel_return(c)
        \/ build_wheel_check(c)
        \/ InstallBuilt(c)

\* Concurrent builds of source distributions through several instances.
SpecInstances == InitInstances /\ [][NextInstances]_vars

\* C18: any two concurrent callers in the process that resolve the same
\* source identity are serialized by one lock, whichever DistributionDatabase
\* instance each goes through.
C18_ProcessWideLock ==
    \A c, d \in Callers :
        (c # d /\ IsSourceCall(c) /\ IsSourceCall(d)
             /\ resource_id(req[c].dist) = resource_id(req[d].dist))
            => ~(InBuildSection(c) /\ InBuildSection(d))

\* Two callers, each through its own instance, are inside the builder for
\* the same source, each holding the lock of its instance's table.
C18_Witness ==
    \E c, d \in Callers :
        /\ c # d
        /\ req[c].db # req[d].db
        /\ req[c].dist = req[d].dist
        /\ pc[c] = "in_download_and_build" /\ pc[d] = "in_download_and_build"
        /\ HoldsLock(c) /\ HoldsLock(d)

\* A caller has looked the lock of its identity up.
Acquired(c) == AwaitsLock(c) \/ InBuildSection(c)

\* C19: the lock table has one Mutex per identity: it is made by the first
\* acquisition of that identity, every caller acquiring the identity gets
\* that one, and it is never removed nor replaced: it changes hands only by
\* its holder dropping the guard.
C19_OneLockPerIdentity ==
    /\ [](\A c \in Callers :
             Acquired(c) => locks[req[c].db][resource_id(req[c].dist)].created)
    /\ [][\A db \in Databases : \A l \in SourceLocs :
             /\ locks[db][l].created => locks'[db][l].created
             /\ (~locks[db][l].created /\ locks'[db][l].created) =>
                   \E c \in Callers :
                       /\ req[c].db = db /\ resource_id(req[c].dist) = l
                       /\ ~Acquired(c) /\ Acquired(c)'
             /\ (locks[db][l].holder # NoCaller /\ locks'[db][l].holder # locks[db][l].holder) =>
                   /\ locks'[db][l].holder = NoCaller
                   /\ pc'[locks[db][l].holder] = "done"]_vars

\* Two callers acquired an identity for the first time together: both wait
\* on the one Mutex, which nobody holds yet.
C19_Witness ==
    \E c, d \in Callers :
        /\ c # d
        /\ SameIdentity(c, d)
        /\ AwaitsLock(c) /\ AwaitsLock(d)
        /\ locks[req[c].db][resource_id(req[c].dist)] = [created |-> TRUE, holder |-> NoCaller]
        /\ Cardinality({l \in SourceLocs : locks[req[c].db][l].created}) = 1

(***************************************************************************)
(* get_wheel_metadata.                                                      *)
(***************************************************************************)
\* get_or_build_wheel_metadata on Dist::Built, lines 97-99.
StartMetadata(c) ==
    \E db \in Databases : Begin(c, "get_wheel_metadata", wheel, db, "wheel_metadata")

\* Faulty variant: any failure of the metadata request is answered by
\* fetching the wheel.
metadata_falls_back_always(err) == TRUE

\* get_wheel_metadata, line 340: the guard of the fallback arm.
metadata_falls_back(err) == is_http_streaming_unsupported(err)

\* Faulty variant: the NoBinary policy is applied before the metadata is
\* requested.
wheel_metadata_gated(c) ==
    /\ pc[c] = "wheel_metadata"
    /\ IF no_binary_covers(no_binary, req[c].dist)
         THEN /\ Finish(c, Err(Error("NoBinary", None)))
              /\ UNCHANGED trace
         ELSE /\ Emit(c, "wheel_metadata")
              /\ Finish(c, Ok("Metadata", None, None, None))
    /\ UNCHANGED <<cfgVars, req, callVars, srcVars, fetchVars, fsVars>>

\* get_wheel_metadata, lines 338-349: client.wheel_metadata(dist) gives the
\* metadata, or an error (Error::Client by err.into()) that either starts
\* get_wheel or is returned.
wheel_metadata(c) ==
    /\ pc[c] = "wheel_metadata"
    /\ \/ /\ Emit(c, "wheel_metadata")
          /\ Finish(c, Ok("Metadata", None, None, None))
       \/ \E e \in ClientErrors :
            IF metadata_falls_back(e)
              THEN /\ trace' = [trace EXCEPT ![c] =
                                  @ \o <<EvErr("wheel_metadata.err", e), Ev("get_wheel")>>]
                   /\ pc' = [pc EXCEPT ![c] = "get_wheel"]
                   /\ UNCHANGED result
              ELSE /\ trace' = [trace EXCEPT ![c] = Append(@, EvErr("wheel_metadata.err", e))]
                   /\ Finish(c, Err(e))
    /\ UNCHANGED <<cfgVars, req, callVars, srcVars, fetchVars, fsVars>>

\* get_wheel_metadata, line 347: wheel.metadata()?
wheel_metadata_read(c) ==
    /\ pc[c] = "wheel_metadata_read"
    /\ Emit(c, "metadata")
    /\ \/ Finish(c, Ok("Metadata", None, None, None))
       \/ Finish(c, Err(Error("DistInfo", None)))
    /\ UNCHANGED <<cfgVars, req, callVars, srcVars, fetchVars, fsVars>>

NextMetadata ==
    \E c \in Callers :
        \/ StartMetadata(c)
        \/ wheel_metadata(c)
        \/ get_wheel(c)
        \/ local_canonicalize(c)
        \/ local_timestamp(c)
        \/ cache_control_step(c)
        \/ get_serde(c)
        \/ transport(c)
        \/ cb_tempfile(c)
        \/ cb_copy(c)
        \/ cb_tempdir(c)
        \/ cb_unzip(c)
        \/ cb_unzipping(c)
        \/ cb_persist(c)
        \/ cb_persisting(c)
        \/ Cancel(c)
        \/ wheel_metadata_read(c)

\* Concurrent requests for the metadata of one built distribution.
SpecMetadata == InitBuilt /\ [][NextMetadata]_vars

IsMetadataCall(c) == req[c].op = "get_wheel_metadata"

\* C15: get_wheel_metadata first asks the client for the metadata alone and
\* returns it if that succeeds; it goes on to get_wheel, and reads the
\* metadata from the wheel it returns, exactly when that request failed with
\* the streaming-unsupported signal; any other error of the request is the
\* result, with no wheel fetched.
C15_MetadataFallback ==
    \A c \in Callers :
        (IsMetadataCall(c) /\ pc[c] # "wheel_metadata") =>
            /\ Len(trace[c]) >= 1
            /\ trace[c][1].ev \in {"wheel_metadata", "wheel_metadata.err"}
            /\ trace[c][1].ev = "wheel_metadata" =>
                 /\ trace[c] = <<Ev("wheel_metadata")>>
                 /\ pc[c] = "done"
                 /\ result[c] = Ok("Metadata", None, None, None)
            /\ Has(trace[c], "get_wheel") <=>
                 /\ trace[c][1].ev = "wheel_metadata.err"
                 /\ is_http_streaming_unsupported(ErrorAt(c, 1))
            /\ ~Has(trace[c], "get_wheel") =>
                 /\ Len(trace[c]) = 1
                 /\ pc[c] = "done"
                 /\ trace[c][1].ev = "wheel_metadata.err" => result[c] = Err(ErrorAt(c, 1))
            /\ Has(trace[c], "get_wheel") =>
                 /\ trace[c][2].ev = "get_wheel"
                 /\ Count(trace[c], "get_wheel") = 1
                 /\ (pc[c] = "done" /\ result[c].kind = "Metadata") =>
                       trace[c][Len(trace[c])].ev = "metadata"

\* The metadata request was refused as streaming-unsupported, the wheel was
\* fetched and unpacked, and the metadata was read from it.
C15_Witness ==
    \E c \in Callers :
        /\ IsMetadataCall(c)
        /\ pc[c] = "done"
        /\ result[c].kind = "Metadata"
        /\ trace[c][1].ev = "wheel_metadata.err"
        /\ Has(trace[c], "persist")
        /\ trace[c][Len(trace[c])].ev = "metadata"

\* crate::Error variants that report a failure of the network.
NetworkErrors == {"Client", "Reqwest"}
\* crate::Error variants that report a failure of the cache's files.
CacheErrors == {"CacheRead", "CacheWrite", "CacheDecode", "CacheEncode"}

\* C22: a timeout while the response body is received ends the call, in
\* stream_wheel and in download_wheel alike, with an error of the network
\* kind, never one of the cache kind.
C22_TimeoutIsNetworkError ==
    \A c \in Callers :
        (IsRemoteCall(c) /\ pc[c] = "done" /\ result[c].kind = "Err"
            /\ result[c].err.cause = handle_response_errors(TRUE)) =>
                /\ result[c].err.variant \in NetworkErrors
                /\ result[c].err.variant \notin CacheErrors

\* The body timed out while download_wheel copied it to its temporary file,
\* and the call ended with Error::CacheWrite.
C22_Witness ==
    \E c \in Callers :
        /\ IsRemoteCall(c)
        /\ pc[c] = "done"
        /\ Strategy(c) = "download"
        /\ trace[c][Len(trace[c])] = EvErr("download_wheel.err", Error("CacheWrite", "TimedOut"))
        /\ trace[c][Len(trace[c]) - 1].ev = "copy"
        /\ result[c] = Err(Error("CacheWrite", "TimedOut"))

\* The body timed out while stream_wheel unpacked it, and the call ended
\* with Error::Extract.
C22_WitnessStream ==
    \E c \in Callers :
        /\ IsRemoteCall(c)
        /\ pc[c] = "done"
        /\ Strategy(c) = "stream"
        /\ result[c] = Err(Error("Extract", "TimedOut"))

\* C24: get_wheel_metadata applies no NoBinary policy before its request:
\* with the package covered, a metadata request that succeeds gives the
\* metadata, and Error::NoBinary is returned only by get_wheel, after the
\* metadata request failed with the streaming-unsupported signal.
C24_MetadataBeforeNoBinary ==
    \A c \in Callers :
        (IsMetadataCall(c) /\ IsBuiltCall(c) /\ BinaryForbidden(req[c].dist)) =>
            /\ pc[c] \in {"wheel_metadata", "get_wheel", "done"}
            /\ pc[c] = "done" => trace[c] # <<>>
            /\ (pc[c] = "done" /\ trace[c][1].ev = "wheel_metadata") =>
                  result[c] = Ok("Metadata", None, None, None)
            /\ (pc[c] = "done" /\ result[c] = Err(Error("NoBinary", None))) =>
                  /\ Len(trace[c]) = 2
                  /\ trace[c][1].ev = "wheel_metadata.err"
                  /\ is_http_streaming_unsupported(ErrorAt(c, 1))
                  /\ trace[c][2] = Ev("get_wheel")
            /\ (pc[c] = "done" /\ Has(trace[c], "get_wheel")) =>
                  result[c] = Err(Error("NoBinary", None))

\* The metadata of a wheel was returned although NoBinary names its package.
C24_Witness ==
    \E c \in Callers :
        /\ IsMetadataCall(c)
        /\ BinaryForbidden(req[c].dist)
        /\ no_binary.kind = "Packages"
        /\ pc[c] = "done"
        /\ result[c].kind = "Metadata"

\* NoBinary was reported only after the metadata request had failed.
C24_WitnessNoBinary ==
    \E c \in Callers :
        /\ IsMetadataCall(c)
        /\ BinaryForbidden(req[c].dist)
        /\ pc[c] = "done"
        /\ result[c] = Err(Error("NoBinary", None))
        /\ Len(trace[c]) = 2

\* The locks a caller holds, over all tables.
LocksHeld(c) ==
    {<<db, l>> \in Databases \X SourceLocs : locks[db][l].holder = c}

\* A resolution of a source distribution is under way.
Resolving(c) == IsSourceCall(c) /\ pc[c] # "done"

\* C23: a caller never waits for a lock while it holds one: build_wheel and
\* build_wheel_metadata look one lock up and take it once, and take no other
\* before it is dropped; so the resolutions under way can always go on, by
\* one of them taking a step, and with every builder call returning each of
\* them ends.
C23_NoNestedLocks ==
    /\ [](\A c \in Callers :
             /\ Cardinality(LocksHeld(c)) <= 1
             /\ AwaitsLock(c) => LocksHeld(c) = {}
             /\ Count(trace[c], "locks.acquire") <= 1
             /\ Count(trace[c], "lock") <= 1
             /\ Resolving(c) => \E d \in Callers : ENABLED (Proceed(d) \/ Locking(d)))
    /\ \A c \in Callers : Resolving(c) ~> (pc[c] = "done")

\* Both callers have ended, one through build_wheel and one through
\* build_wheel_metadata of the same identity, each having held its one lock,
\* and every lock is free again.
C23_Witness ==
    \E c, d \in Callers :
        /\ c # d
        /\ SameIdentity(c, d)
        /\ req[c].op = "get_or_build_wheel" /\ req[d].op = "get_or_build_wheel_metadata"
        /\ pc[c] = "done" /\ pc[d] = "done"
        /\ Count(trace[c], "lock") = 1 /\ Count(trace[d], "lock") = 1
        /\ LocksHeld(c) = {} /\ LocksHeld(d) = {}

\* The cache control both strategies owe, by the connectivity and the state
\* of the HTTP cache entry alone.
ExpectedCacheControl ==
    IF connectivity = "Offline" THEN "AllowStale"
    ELSE IF http = "fresh" THEN "None" ELSE "MustRevalidate"

\* C21: stream_wheel and download_wheel differ only in how the body reaches
\* the temporary directory: whichever of them a call is in, it reads and
\* writes the one HTTP cache entry of the wheel, chooses the cache control by
\* the connectivity and that entry's state alone, fails on the same requests
\* it cannot build, persists to the wheel's one cache destination, and on
\* success returns that destination, holding a completely unpacked tree.
C21_StrategiesAgree ==
    [][\A c \in Callers :
          IsRemoteCall(c) =>
             /\ (pc[c] = "cache_control" /\ pc'[c] = "get_serde") =>
                   cache_control'[c] = ExpectedCacheControl
             /\ (pc[c] = "cache_control" /\ pc'[c] = "done") =>
                   /\ connectivity = "Online" /\ http = "unreadable"
                   /\ result'[c] = Err(Error("CacheRead", None))
             /\ (pc[c] = "get_serde" /\ pc'[c] # "get_serde") =>
                   (result'[c] = Err(Error("Reqwest", None)) <=> ~req[c].dist.request_ok)
             /\ (pc[c] = "cb_persisting" /\ pc'[c] = "done" /\ result'[c].kind # "Err") =>
                   /\ result'[c] = Ok("Unzipped", cache_entry(req[c].dist), None, None)
                   /\ archive' = [state |-> "complete", ts |-> 0, by |-> temp[c].dir]
                   /\ http' = "fresh"]_vars

\* After the fallback, download_wheel chose its cache control as stream_wheel
\* had, sent its request, and persisted the tree it unpacked to the wheel's
\* destination.
C21_Witness ==
    \E c \in Callers :
        /\ IsRemoteCall(c)
        /\ pc[c] = "done"
        /\ Strategy(c) = "download"
        /\ Count(trace[c], "freshness") = 2
        /\ Count(trace[c], "transport") = 2
        /\ result[c] = Ok("Unzipped", cache_entry(req[c].dist), None, None)
        /\ archive = [state |-> "complete", ts |-> 0, by |-> temp[c].dir]
====
